---- MODULE Spec2Model ----
(***************************************************************************)
(* A model of the Bloom-filter de Bruijn graph adapter of                  *)
(* BloomDBG/RollingBloomDBG.h: the vertex (a k-mer buffer paired with a    *)
(* rolling hash state), the three lazy neighbour iterators, the degree     *)
(* functions, vertex_exists and the property accessors.                    *)
(*                                                                         *)
(* The collaborators the header includes (LightweightKmer, RollingHash,    *)
(* BloomFilter, MaskedKmer) are modelled from their contracts in the       *)
(* specification.                                                          *)
(***************************************************************************)
EXTENDS Integers, Sequences, FiniteSets, TLC

VARIABLES
    mask,       \* MaskedKmer::mask(): <<>> (no spaced seed) or a K-tuple of 0/1
    m_bloom,    \* the Bloom filter the graph refers to (RollingBloomDBG::m_bloom)
    mem,        \* k-mer character buffers, one per vertex object
    u,          \* the origin vertex the caller holds
    it,         \* the caller's iterator (kind "none": not assigned yet)
    yielded,    \* what `it` stood on after its construction and each ++
    res,        \* the result of the caller's last non-iterator call
    walk,       \* how many times the caller moved u to a neighbour
    cost,       \* the operations `it` has performed since its construction
    held,       \* what the caller keeps of the last *it it evaluated
    prev,       \* the items the caller collected from an earlier enumeration
    it2,        \* a second iterator of the caller
    yielded2    \* what `it2` stood on after its construction and each ++

second == <<it2, yielded2>>

vars == <<mask, m_bloom, mem, u, it, yielded, res, walk, cost, held, prev, second>>

-----------------------------------------------------------------------------
(* Alphabet and session constants *)

\* an alphabet string with two symbols exchanged
BASE_CHARS_exchanged == <<"A", "C", "T", "G">>

BASE_CHARS == <<"A", "C", "G", "T">>

NUM_BASES == 4

K == 5

BloomSize == 100000

SmallBloomSize == 7

MaxWalk == 2

SENSE == "SENSE"

ANTISENSE == "ANTISENSE"

Bases == {"A", "C", "G", "T"}

Kmers == [1..K -> Bases]

NoMask == <<>>

SpacedSeed == <<1, 1, 0, 1, 1>>

CGACT == <<"C", "G", "A", "C", "T">>
TGACT == <<"T", "G", "A", "C", "T">>
GACTC == <<"G", "A", "C", "T", "C">>
ACTCT == <<"A", "C", "T", "C", "T">>
ACTCG == <<"A", "C", "T", "C", "G">>

TestKmers == {CGACT, TGACT, GACTC, ACTCT, ACTCG}

-----------------------------------------------------------------------------
(* MaskedKmer / LightweightKmer *)

Code(c) == CASE c = "A" -> 0 [] c = "C" -> 1 [] c = "G" -> 2 [] c = "T" -> 3

complementBase(c) == CASE c = "A" -> "T" [] c = "C" -> "G" [] c = "G" -> "C" [] c = "T" -> "A"

reverseComplement(kmer) == [i \in 1..Len(kmer) |-> complementBase(kmer[Len(kmer) + 1 - i])]

\* position i (1-based) takes part in comparison and hashing
Significant(msk, i) == msk = NoMask \/ msk[i] = 1

\* LightweightKmer::operator==: equality at the significant positions
KmerEq(a, b, msk) ==
    /\ Len(a) = Len(b)
    /\ \A i \in 1..Len(a) : Significant(msk, i) => a[i] = b[i]

\* LightweightKmer::shift
KmerShift(kmer, dir, charIn) ==
    IF dir = SENSE
    THEN [i \in 1..K |-> IF i = K THEN charIn ELSE kmer[i + 1]]
    ELSE [i \in 1..K |-> IF i = 1 THEN charIn ELSE kmer[i - 1]]

-----------------------------------------------------------------------------
(* RollingHash: a forward hash, the hash of the reverse complement, and    *)
(* the combined (strand-independent) seed the filter is queried with       *)

RECURSIVE Pow4(_)
Pow4(n) == IF n = 0 THEN 1 ELSE 4 * Pow4(n - 1)

HashSpan == Pow4(K)

RECURSIVE SumOver(_, _)
SumOver(f, n) == IF n = 0 THEN 0 ELSE f[n] + SumOver(f, n - 1)

Weight(msk, i) == IF Significant(msk, i) THEN 1 ELSE 0

getFhval(kmer, msk) ==
    SumOver([i \in 1..K |-> Weight(msk, i) * Code(kmer[i]) * Pow4(K - i)], K)

getRhval(kmer, msk) ==
    SumOver([i \in 1..K |-> Weight(msk, i) * (3 - Code(kmer[i])) * Pow4(i - 1)], K)

\* RollingHash(kmer, numHashes, k): the hash state computed from scratch
RollingHash(kmer, numHashes, msk) ==
    [m_numHashes |-> numHashes,
     m_hash1     |-> getFhval(kmer, msk),
     m_rcHash1   |-> getRhval(kmer, msk)]

\* RollingHash(): the empty hash state, holding no hash value
EmptyHash == [m_numHashes |-> 0, m_hash1 |-> 0, m_rcHash1 |-> 0]

getHashSeed(h) == IF h.m_rcHash1 < h.m_hash1 THEN h.m_rcHash1 ELSE h.m_hash1

\* getHashes: numHashes values derived from the seed
getHashes(h) == [i \in 1..h.m_numHashes |-> getHashSeed(h) + (i - 1) * HashSpan]

\* rollRight(kmer, charIn): kmer is the window before the shift
rollRight(h, kmer, charIn, msk) ==
    IF msk # NoMask
    THEN RollingHash(KmerShift(kmer, SENSE, charIn), h.m_numHashes, msk)
    ELSE [h EXCEPT
            !.m_hash1   = (@ - Code(kmer[1]) * Pow4(K - 1)) * 4 + Code(charIn),
            !.m_rcHash1 = (@ - (3 - Code(kmer[1]))) \div 4
                              + (3 - Code(charIn)) * Pow4(K - 1)]

\* rollLeft(charIn, kmer): kmer is the window before the shift
rollLeft(h, charIn, kmer, msk) ==
    IF msk # NoMask
    THEN RollingHash(KmerShift(kmer, ANTISENSE, charIn), h.m_numHashes, msk)
    ELSE [h EXCEPT
            !.m_hash1   = (@ - Code(kmer[K])) \div 4 + Code(charIn) * Pow4(K - 1),
            !.m_rcHash1 = (@ - (3 - Code(kmer[K])) * Pow4(K - 1)) * 4
                              + (3 - Code(charIn))]

\* setBase(kmer, pos, base): updates the hash and writes base into kmer[pos]
setBaseHash(h, kmer, pos, base, msk) ==
    [h EXCEPT
       !.m_hash1   = @ + Weight(msk, pos) * (Code(base) - Code(kmer[pos])) * Pow4(K - pos),
       !.m_rcHash1 = @ + Weight(msk, pos) * (Code(kmer[pos]) - Code(base)) * Pow4(pos - 1)]

setBaseKmer(kmer, pos, base) == [kmer EXCEPT ![pos] = base]

-----------------------------------------------------------------------------
(* BloomFilter *)

EmptyBloom(size, numHashes) == [m_size |-> size, m_hashNum |-> numHashes, m_filter |-> {}]

insert(bf, hashes) ==
    [bf EXCEPT !.m_filter = @ \cup {hashes[i] % bf.m_size : i \in 1..bf.m_hashNum}]

contains(bf, hashes) ==
    \A i \in 1..bf.m_hashNum : (hashes[i] % bf.m_size) \in bf.m_filter

\* the fixture's filling of the filter: RollingHash(s, numHashes, k).getHashes, insert

RECURSIVE insertAll(_, _, _)
insertAll(bf, kmers, msk) ==
    IF kmers = {} THEN bf
    ELSE LET s == CHOOSE x \in kmers : TRUE
         IN  insertAll(insert(bf, getHashes(RollingHash(s, bf.m_hashNum, msk))),
                       kmers \ {s}, msk)

-----------------------------------------------------------------------------
(* RollingBloomDBGVertex.  A vertex object is a reference to its k-mer     *)
(* buffer (a cell of mem) and its hash state; an operation that writes a   *)
(* buffer returns the vertex together with the memory it leaves.           *)

Slots == {"u", "m_u", "m_v", "tmp_u", "tmp_v", "e_first", "e_second", "u2", "m_u2", "m_v2"}

\* the vertex as a value: the characters of its buffer and its hash state
Val(v, m) == [m_kmer |-> m[v.m_kmer], m_rollingHash |-> v.m_rollingHash]

\* RollingBloomDBGVertex(): no k-mer, the empty hash state
DefaultVertex(slot) == [m_kmer |-> slot, m_rollingHash |-> EmptyHash]

\* RollingBloomDBGVertex(const char* kmer, const RollingHash rollingHash):
\* the characters are copied into the new object's own buffer
NewVertex(slot, kmer, rollingHash, m) ==
    [v   |-> [m_kmer |-> slot, m_rollingHash |-> rollingHash],
     mem |-> [m EXCEPT ![slot] = kmer]]

\* the copy constructor: the copy owns its members by value
CopyVertex(v, slot, m) == NewVertex(slot, m[v.m_kmer], v.m_rollingHash, m)

\* a clone that shares the k-mer buffer of the vertex it copies
clone_shared(v, slot, m) == [v |-> v, mem |-> m]

clone(v, slot, m) == NewVertex(slot, m[v.m_kmer], v.m_rollingHash, m)

\* a shift that rolls the hash and forgets m_kmer.shift
shift_hash_only(v, dir, charIn, m, msk) ==
    LET kmer == m[v.m_kmer]
        h    == IF dir = SENSE
                THEN rollRight(v.m_rollingHash, kmer, charIn, msk)
                ELSE rollLeft(v.m_rollingHash, charIn, kmer, msk)
    IN  [v |-> [v EXCEPT !.m_rollingHash = h], mem |-> m]

shift(v, dir, charIn, m, msk) ==
    LET kmer == m[v.m_kmer]
        h    == IF dir = SENSE
                THEN rollRight(v.m_rollingHash, kmer, charIn, msk)
                ELSE rollLeft(v.m_rollingHash, charIn, kmer, msk)
    IN  [v   |-> [v EXCEPT !.m_rollingHash = h],
         mem |-> [m EXCEPT ![v.m_kmer] = KmerShift(kmer, dir, charIn)]]

\* a setLastBase that passes position 0 in both directions
setLastBase_first(v, dir, base, m, msk) ==
    LET kmer == m[v.m_kmer]
    IN  [v   |-> [v EXCEPT !.m_rollingHash = setBaseHash(@, kmer, 1, base, msk)],
         mem |-> [m EXCEPT ![v.m_kmer] = setBaseKmer(kmer, 1, base)]]

\* m_rollingHash.setBase(m_kmer.c_str(), pos, base): setBase is handed the
\* vertex's own buffer, updates the hash and writes the base into it
setLastBase(v, dir, base, m, msk) ==
    LET kmer == m[v.m_kmer]
        pos  == IF dir = SENSE THEN K ELSE 1
    IN  [v   |-> [v EXCEPT !.m_rollingHash = setBaseHash(@, kmer, pos, base, msk)],
         mem |-> [m EXCEPT ![v.m_kmer] = setBaseKmer(kmer, pos, base)]]

\* an operator== without the comparison of the hash states
VertexCompare_kmer_only(a, b, msk) ==
    [equal |-> KmerEq(a.m_kmer, b.m_kmer, msk), kmerCompared |-> TRUE]

\* operator==, with whether the k-mer comparison was reached
VertexCompare(a, b, msk) ==
    IF a.m_rollingHash # b.m_rollingHash
    THEN [equal |-> FALSE, kmerCompared |-> FALSE]
    ELSE [equal |-> KmerEq(a.m_kmer, b.m_kmer, msk), kmerCompared |-> TRUE]

VertexEq(a, b, msk) == VertexCompare(a, b, msk).equal

VertexNeq(a, b, msk) == ~VertexEq(a, b, msk)

\* a functor that hashes the characters of the k-mer, masked ones included
VertexHash_of_characters(a) == getFhval(a.m_kmer, NoMask)

\* std::hash<RollingBloomDBGVertex>
VertexHash(a) == getHashSeed(a.m_rollingHash)

-----------------------------------------------------------------------------
(* The graph: vertex_exists and the null vertex *)

\* a vertex_exists that never asks the filter
vertex_exists_always(v, g, stack) == TRUE

\* hashes[] is declared without an initializer and getHashes fills the
\* entries the hash state holds; `stack` is what the array held before
vertex_exists(v, g, stack) ==
    LET filled == getHashes(v.m_rollingHash)
        hashes == [i \in 1..g.m_hashNum |->
                      IF i <= v.m_rollingHash.m_numHashes THEN filled[i] ELSE stack[i]]
    IN  contains(g, hashes)

\* no entry of the array is left unwritten for a vertex of the session
NoStack == <<>>

\* V(): the value of a default-constructed vertex, an empty k-mer with an
\* empty hash state
EmptyVertex == [m_kmer |-> <<>>, m_rollingHash |-> EmptyHash]

\* what a call has for a result when the function it names has no
\* well-formed instantiation: there is no program that makes the call
IllFormed == [ill_formed |-> TRUE]

\* null_vertex(): return std::make_pair(MaskedKmer(), std::vector<size_t>()),
\* a pair that does not convert to vertex_descriptor
null_vertex == IllFormed

-----------------------------------------------------------------------------
(* The iterators.  An iterator is [kind, m_g, m_u, m_v, m_i].              *)

\* the caller's iterator variable before an iterator is assigned to it: its
\* m_g and m_i are indeterminate and are not part of the state; a read of
\* them is a choice made at the read (DefaultIterator)
NoIterator == [kind |-> "none"]

\* the values the m_i of a default-constructed iterator is read as: short
\* unsigned in adjacency_iterator, unsigned in the edge iterators (whose
\* values above 2^31 - 1 are read as 2^31 - 1)
IndeterminateIndex(kind) ==
    (0..(NUM_BASES + 1)) \cup {IF kind = "adjacency" THEN 65535 ELSE 2147483647}

\* a pointer that refers to no graph object
WildPointer == [wild |-> TRUE]

\* iterator(): m_u and m_v are default-constructed, m_g and m_i are not
\* initialized; g and i are what a read finds in them
DefaultIterator(kind, g, i) ==
    [kind |-> kind, m_g |-> g, m_u |-> DefaultVertex("m_u"),
     m_v |-> DefaultVertex("m_v"), m_i |-> i]

\* the calls an operation of an iterator makes, counted by callee
NoOps == [shift |-> 0, setLastBase |-> 0, vertex_exists |-> 0, increment |-> 0,
          next |-> 0]

Count(op) == [NoOps EXCEPT ![op] = 1]

AddOps(a, b) == [op \in DOMAIN a |-> a[op] + b[op]]

\* one turn of the loop of next(): one setLastBase, one vertex_exists
OneCandidate == AddOps(Count("setLastBase"), Count("vertex_exists"))

\* next(): skip to the next candidate that is present
RECURSIVE NextLoop(_, _, _, _, _)
NextLoop(dir, itr, m, g, msk) ==
    IF itr.m_i < NUM_BASES
    THEN LET r == setLastBase(itr.m_v, dir, BASE_CHARS[itr.m_i + 1], m, msk)
         IN  IF vertex_exists(r.v, g, NoStack)
             THEN [it |-> [itr EXCEPT !.m_v = r.v], mem |-> r.mem, ops |-> OneCandidate]
             ELSE LET n == NextLoop(dir, [itr EXCEPT !.m_v = r.v, !.m_i = @ + 1],
                                    r.mem, g, msk)
                  IN  [n EXCEPT !.ops = AddOps(OneCandidate, @)]
    ELSE [it |-> itr, mem |-> m, ops |-> NoOps]

\* a next() that stops at every candidate without asking the oracle
adjacency_iterator_next_untested(itr, m, g, msk) ==
    IF itr.m_i < NUM_BASES
    THEN LET r == setLastBase(itr.m_v, SENSE, BASE_CHARS[itr.m_i + 1], m, msk)
         IN  [it |-> [itr EXCEPT !.m_v = r.v], mem |-> r.mem,
              ops |-> Count("setLastBase")]
    ELSE [it |-> itr, mem |-> m, ops |-> NoOps]

adjacency_iterator_next(itr, m, g, msk) == NextLoop(SENSE, itr, m, g, msk)

out_edge_iterator_next(itr, m, g, msk) == NextLoop(SENSE, itr, m, g, msk)

\* a next() of the in-edge iterator that substitutes at the SENSE end
in_edge_iterator_next_sense(itr, m, g, msk) == NextLoop(SENSE, itr, m, g, msk)

in_edge_iterator_next(itr, m, g, msk) == NextLoop(ANTISENSE, itr, m, g, msk)

\* one call of next() with the result n
Called(n) == [n EXCEPT !.ops = AddOps(Count("next"), @)]

next(itr, m, g, msk) ==
    CASE itr.kind = "adjacency" -> Called(adjacency_iterator_next(itr, m, g, msk))
      [] itr.kind = "out_edge"  -> Called(out_edge_iterator_next(itr, m, g, msk))
      [] itr.kind = "in_edge"   -> Called(in_edge_iterator_next(itr, m, g, msk))

\* the direction the constructor of each iterator shifts in
ShiftDir(kind) == IF kind = "in_edge" THEN ANTISENSE ELSE SENSE

\* a constructor whose working vertex lives in one buffer all iterators use
Construct_one_buffer(kind, origin, slotU, slotV, m, g, msk) ==
    LET cu == CopyVertex(origin, slotU, m)
        cv == clone(origin, "m_v", cu.mem)
        sh == shift(cv.v, ShiftDir(kind), "A", cv.mem, msk)
        n  == next([kind |-> kind, m_g |-> g, m_u |-> cu.v, m_v |-> sh.v, m_i |-> 0],
                   sh.mem, g, msk)
    IN  [n EXCEPT !.ops = AddOps(Count("shift"), @)]

\* a constructor that forgets the call of next()
Construct_without_next(kind, origin, slotU, slotV, m, g, msk) ==
    LET cu == CopyVertex(origin, slotU, m)
        cv == clone(origin, slotV, cu.mem)
        sh == shift(cv.v, ShiftDir(kind), "A", cv.mem, msk)
    IN  [it |-> [kind |-> kind, m_g |-> g, m_u |-> cu.v, m_v |-> sh.v, m_i |-> 0],
         mem |-> sh.mem, ops |-> Count("shift")]

\* a constructor that shifts u itself and clones it afterwards
Construct_in_place(kind, origin, slotU, slotV, m, g, msk) ==
    LET sh == shift(origin, ShiftDir(kind), "A", m, msk)
        cu == CopyVertex(sh.v, slotU, sh.mem)
        cv == clone(sh.v, slotV, cu.mem)
        n  == next([kind |-> kind, m_g |-> g, m_u |-> cu.v, m_v |-> cv.v, m_i |-> 0],
                   cv.mem, g, msk)
    IN  [n EXCEPT !.ops = AddOps(Count("shift"), @)]

\* iterator(g, u): m_u(u), m_v(u.clone()), m_i(0); m_v.shift(dir); next()
Construct(kind, origin, slotU, slotV, m, g, msk) ==
    LET cu == CopyVertex(origin, slotU, m)
        cv == clone(origin, slotV, cu.mem)
        sh == shift(cv.v, ShiftDir(kind), "A", cv.mem, msk)
        n  == next([kind |-> kind, m_g |-> g, m_u |-> cu.v, m_v |-> sh.v, m_i |-> 0],
                   sh.mem, g, msk)
    IN  [n EXCEPT !.ops = AddOps(Count("shift"), @)]

\* iterator(g): m_g(&g), m_i(NUM_BASES), the end sentinel
EndIterator(kind, g) ==
    [kind |-> kind, m_g |-> g, m_u |-> DefaultVertex("m_u"),
     m_v |-> DefaultVertex("m_v"), m_i |-> NUM_BASES]

\* an operator== that compares every member
IterEq_memberwise(a, b) == a.m_i = b.m_i /\ a.m_u = b.m_u /\ a.m_v = b.m_v

\* operator== of two iterators
IterEq(a, b) == a.m_i = b.m_i

\* operator!= of two iterators
IterNeq(a, b) == ~IterEq(a, b)

\* an operator++ that derives the working vertex from m_u again
Increment_from_origin(itr, m, g, msk) ==
    LET cv == clone(itr.m_u, itr.m_v.m_kmer, m)
        sh == shift(cv.v, ShiftDir(itr.kind), "A", cv.mem, msk)
        n  == next([itr EXCEPT !.m_v = sh.v, !.m_i = @ + 1], sh.mem, g, msk)
    IN  [n EXCEPT !.ops = AddOps(AddOps(Count("increment"), Count("shift")), @)]

\* operator++: ++m_i; next()
Increment(itr, m, g, msk) ==
    LET n == next([itr EXCEPT !.m_i = @ + 1], m, g, msk)
    IN  [n EXCEPT !.ops = AddOps(Count("increment"), @)]

\* the iterator as a value: what a copy of it holds
IterVal(itr, m) == [itr EXCEPT !.m_u = Val(itr.m_u, m), !.m_v = Val(itr.m_v, m)]

\* an operator++(int) that advances the copy and returns *this
PostIncrement_of_copy(itr, m, g, msk) ==
    LET r == Increment(itr, m, g, msk)
    IN  [it |-> itr, mem |-> m, ops |-> r.ops, ret |-> IterVal(r.it, r.mem)]

\* operator++(int): it = *this; ++*this; return it
PostIncrement(itr, m, g, msk) ==
    LET r == Increment(itr, m, g, msk)
    IN  [it |-> r.it, mem |-> r.mem, ops |-> r.ops, ret |-> IterVal(itr, m)]

\* operator*
Star(itr, m) ==
    CASE itr.kind = "adjacency" -> Val(itr.m_v, m)
      [] itr.kind = "out_edge"  -> <<Val(itr.m_u, m), Val(itr.m_v, m)>>
      [] itr.kind = "in_edge"   -> <<Val(itr.m_v, m), Val(itr.m_u, m)>>

source(e) == e[1]

target(e) == e[2]

\* std::distance(first, last): ++first until first == last, counting
RECURSIVE Distance(_, _, _, _, _)
Distance(itr, last, m, g, msk) ==
    IF IterEq(itr, last) THEN [n |-> 0, mem |-> m, ops |-> NoOps]
    ELSE LET r == Increment(itr, m, g, msk)
             d == Distance(r.it, last, r.mem, g, msk)
         IN  [n |-> 1 + d.n, mem |-> d.mem, ops |-> AddOps(r.ops, d.ops)]

adjacent_vertices(origin, slotU, slotV, m, g, msk) ==
    Construct("adjacency", origin, slotU, slotV, m, g, msk)

out_edges(origin, slotU, slotV, m, g, msk) ==
    Construct("out_edge", origin, slotU, slotV, m, g, msk)

in_edges(origin, slotU, slotV, m, g, msk) ==
    Construct("in_edge", origin, slotU, slotV, m, g, msk)

\* an out_degree that counts the in-edges
out_degree_of_in_edges(origin, m, g, msk) ==
    LET ie == in_edges(origin, "tmp_u", "tmp_v", m, g, msk)
        d  == Distance(ie.it, EndIterator("in_edge", g), ie.mem, g, msk)
    IN  [d EXCEPT !.ops = AddOps(ie.ops, @)]

\* the iterators of a degree call are temporaries: their buffers die with it
out_degree(origin, m, g, msk) ==
    LET adj == adjacent_vertices(origin, "tmp_u", "tmp_v", m, g, msk)
        d   == Distance(adj.it, EndIterator("adjacency", g), adj.mem, g, msk)
    IN  [d EXCEPT !.ops = AddOps(adj.ops, @)]

in_degree(origin, m, g, msk) ==
    LET ie == in_edges(origin, "tmp_u", "tmp_v", m, g, msk)
        d  == Distance(ie.it, EndIterator("in_edge", g), ie.mem, g, msk)
    IN  [d EXCEPT !.ops = AddOps(ie.ops, @)]

\* get(vertex_complement, g, u): V(reverseComplement(u.first), u.second),
\* and a vertex has no member first or second
get_vertex_complement(uval) == IllFormed

-----------------------------------------------------------------------------
(* The sessions: the two test fixtures, the first fixture with a filter    *)
(* small enough to answer falsely, and an empty filter.                    *)

Sessions ==
    { [mask |-> NoMask,     numHashes |-> 2, size |-> BloomSize,      inserted |-> TestKmers],
      [mask |-> SpacedSeed, numHashes |-> 1, size |-> BloomSize,      inserted |-> TestKmers],
      [mask |-> NoMask,     numHashes |-> 2, size |-> SmallBloomSize, inserted |-> TestKmers],
      [mask |-> NoMask,     numHashes |-> 2, size |-> BloomSize,      inserted |-> {}] }

\* V(kmer, RollingHash(kmer, numHashes, k)) as the tests build it
Fresh(kmer, g, msk) ==
    [m_kmer |-> kmer, m_rollingHash |-> RollingHash(kmer, g.m_hashNum, msk)]

EmptyMem == [s \in Slots |-> <<>>]

FreeIterator(m) == [m EXCEPT !["m_u"] = <<>>, !["m_v"] = <<>>]

\* the copies the caller made of an item
FreeHeld(m) == [m EXCEPT !["e_first"] = <<>>, !["e_second"] = <<>>]

FreeTemporaries(m) == [m EXCEPT !["tmp_u"] = <<>>, !["tmp_v"] = <<>>]

\* res holds the result of one call; the caller's next call is made once it
\* has been consumed (res = NoResult)
NoResult == [op |-> "none"]

\* the caller keeps nothing of a dereference
NoHeld == [how |-> "none"]

\* the caller has collected no items
NoPrev == [kind |-> "none", items |-> <<>>, complete |-> FALSE]

\* a session out of `sessions` with an origin vertex out of `kmers`
InitFrom(sessions, kmers) ==
    /\ \E s \in sessions, kmer \in kmers :
          /\ mask = s.mask
          /\ m_bloom = insertAll(EmptyBloom(s.size, s.numHashes), s.inserted, s.mask)
          /\ u = [m_kmer |-> "u", m_rollingHash |-> RollingHash(kmer, s.numHashes, s.mask)]
          /\ mem = [EmptyMem EXCEPT !["u"] = kmer]
    /\ it = NoIterator
    /\ yielded = <<>>
    /\ res = NoResult
    /\ walk = 0
    /\ cost = NoOps
    /\ held = NoHeld
    /\ prev = NoPrev
    /\ it2 = NoIterator
    /\ yielded2 = <<>>

Init == InitFrom(Sessions, Kmers)

\* what the iterator stands on, recorded when it is not at the end
Stop(itr, m) ==
    IF itr.m_i < NUM_BASES THEN <<[i |-> itr.m_i, item |-> Star(itr, m)]>> ELSE <<>>

\* boost::tie(ai, ai_end) = adjacent_vertices(u, g)
AdjacentVertices ==
    /\ it.kind = "none"
    /\ res = NoResult
    /\ LET r == adjacent_vertices(u, "m_u", "m_v", mem, m_bloom, mask)
       IN  /\ it' = r.it
           /\ mem' = r.mem
           /\ yielded' = Stop(r.it, r.mem)
           /\ cost' = r.ops
    /\ UNCHANGED <<mask, m_bloom, u, res, walk, held, prev, second>>

\* boost::tie(ei, ei_end) = out_edges(u, g)
OutEdges ==
    /\ it.kind = "none"
    /\ res = NoResult
    /\ LET r == out_edges(u, "m_u", "m_v", mem, m_bloom, mask)
       IN  /\ it' = r.it
           /\ mem' = r.mem
           /\ yielded' = Stop(r.it, r.mem)
           /\ cost' = r.ops
    /\ UNCHANGED <<mask, m_bloom, u, res, walk, held, prev, second>>

\* boost::tie(ei, ei_end) = in_edges(u, g)
InEdges ==
    /\ it.kind = "none"
    /\ res = NoResult
    /\ LET r == in_edges(u, "m_u", "m_v", mem, m_bloom, mask)
       IN  /\ it' = r.it
           /\ mem' = r.mem
           /\ yielded' = Stop(r.it, r.mem)
           /\ cost' = r.ops
    /\ UNCHANGED <<mask, m_bloom, u, res, walk, held, prev, second>>

\* ++it, by a caller that found it != end
PlusPlus ==
    /\ it.kind # "none"
    /\ ~IterEq(it, EndIterator(it.kind, m_bloom))
    /\ LET r == Increment(it, mem, m_bloom, mask)
       IN  /\ it' = r.it
           /\ mem' = r.mem
           /\ yielded' = yielded \o Stop(r.it, r.mem)
           /\ cost' = AddOps(cost, r.ops)
    /\ UNCHANGED <<mask, m_bloom, u, res, walk, held, prev, second>>

\* it++, by a caller that found it != end; the copy it returns is dropped
PostPlusPlus ==
    /\ it.kind # "none"
    /\ ~IterEq(it, EndIterator(it.kind, m_bloom))
    /\ LET r == PostIncrement(it, mem, m_bloom, mask)
       IN  /\ it' = r.it
           /\ mem' = r.mem
           /\ yielded' = yielded \o Stop(r.it, r.mem)
           /\ cost' = AddOps(cost, r.ops)
    /\ UNCHANGED <<mask, m_bloom, u, res, walk, held, prev, second>>

\* how many calls of next() a caller makes on one iterator
MaxNext == 2

\* the calls of next() that the constructor and operator++ did not make
DirectNext(ops) == ops.next - ops.increment - ops.shift

\* it.next(), by the caller: next() is declared ahead of `public:` in a
\* struct, so it is a public member
CallNext ==
    /\ it.kind # "none"
    /\ DirectNext(cost) < MaxNext
    /\ LET r == next(it, mem, m_bloom, mask)
       IN  /\ it' = r.it
           /\ mem' = r.mem
           /\ cost' = AddOps(cost, r.ops)
    /\ UNCHANGED <<mask, m_bloom, u, yielded, res, walk, held, prev, second>>

\* the iterator goes out of scope, and with it what refers to it
Release ==
    /\ it.kind # "none"
    /\ it' = NoIterator
    /\ mem' = FreeHeld(FreeIterator(mem))
    /\ yielded' = <<>>
    /\ cost' = NoOps
    /\ held' = NoHeld
    /\ UNCHANGED <<mask, m_bloom, u, res, walk, prev, second>>

\* the neighbour the iterator's item names
Neighbour(itr) == itr.m_v

\* a traversal step: u = *ai (u = target(*ei), u = source(*ei)); the
\* iterator goes out of scope, and what the caller kept of the old u is dropped
Walk ==
    /\ it.kind # "none"
    /\ ~IterEq(it, EndIterator(it.kind, m_bloom))
    /\ walk < MaxWalk
    /\ LET c == CopyVertex(Neighbour(it), "u", mem)
       IN  /\ u' = c.v
           /\ mem' = FreeHeld(FreeIterator(c.mem))
    /\ it' = NoIterator
    /\ yielded' = <<>>
    /\ walk' = walk + 1
    /\ cost' = NoOps
    /\ held' = NoHeld
    /\ prev' = NoPrev
    /\ UNCHANGED <<mask, m_bloom, res, second>>

OutDegree ==
    /\ it.kind = "none"
    /\ res = NoResult
    /\ LET d == out_degree(u, mem, m_bloom, mask)
       IN  /\ res' = [op |-> "out_degree", n |-> d.n, ops |-> d.ops]
           /\ mem' = FreeTemporaries(d.mem)
    /\ UNCHANGED <<mask, m_bloom, u, it, yielded, walk, cost, held, prev, second>>

InDegree ==
    /\ it.kind = "none"
    /\ res = NoResult
    /\ LET d == in_degree(u, mem, m_bloom, mask)
       IN  /\ res' = [op |-> "in_degree", n |-> d.n, ops |-> d.ops]
           /\ mem' = FreeTemporaries(d.mem)
    /\ UNCHANGED <<mask, m_bloom, u, it, yielded, walk, cost, held, prev, second>>

\* the k-mer that differs from kmer at the middle position only
MiddleVariant(kmer) == [kmer EXCEPT ![3] = complementBase(@)]

\* the vertices a caller compares: u and vertices built from a literal
\* sequence
Left == {Val(u, mem)}

Right ==
    Left \cup { Fresh(reverseComplement(mem["u"]), m_bloom, mask),
                Fresh(MiddleVariant(mem["u"]), m_bloom, mask) }

\* a == b and a != b
Compare ==
    /\ it.kind = "none"
    /\ res = NoResult
    /\ \E a \in Left, b \in Right :
          res' = [op |-> "compare", a |-> a, b |-> b,
                  equal |-> VertexEq(a, b, mask),
                  unequal |-> VertexNeq(a, b, mask),
                  kmerCompared |-> VertexCompare(a, b, mask).kmerCompared]
    /\ UNCHANGED <<mask, m_bloom, mem, u, it, yielded, walk, cost, held, prev, second>>

\* the values an entry of the stack may hold where vertex_exists declares
\* hashes[]: any size_t; these reach every slot of the small filter, and
\* the slots of a k-mer an earlier call asked for
StackValues ==
    (0..(SmallBloomSize - 1))
        \cup { getHashes(RollingHash(GACTC, m_bloom.m_hashNum, mask))[i] :
                  i \in 1..m_bloom.m_hashNum }

\* hashes[] before getHashes: every entry holds any value
StackContents == [1..m_bloom.m_hashNum -> StackValues]

\* vertex_exists(V(), g): the empty hash state fills no entry of hashes[]
ExistsEmpty ==
    /\ it.kind = "none"
    /\ res = NoResult
    /\ \E stack \in StackContents :
          res' = [op |-> "vertex_exists", v |-> EmptyVertex,
                  present |-> vertex_exists(EmptyVertex, m_bloom, stack)]
    /\ UNCHANGED <<mask, m_bloom, mem, u, it, yielded, walk, cost, held, prev, second>>

\* the caller has used the result of its call
Return ==
    /\ res # NoResult
    /\ res' = NoResult
    /\ UNCHANGED <<mask, m_bloom, mem, u, it, yielded, walk, cost, held, prev, second>>

Next ==
    \/ AdjacentVertices
    \/ OutEdges
    \/ InEdges
    \/ PlusPlus
    \/ PostPlusPlus
    \/ CallNext
    \/ Release
    \/ Walk
    \/ OutDegree
    \/ InDegree
    \/ Compare
    \/ ExistsEmpty
    \/ Return

Spec == Init /\ [][Next]_vars

-----------------------------------------------------------------------------
(* The vertex on its own: a caller that applies shift and setLastBase to   *)
(* the vertex it holds, in any order, and compares it with vertices built  *)
(* from a literal sequence.                                                *)

\* the two fixtures
FixtureSessions == {s \in Sessions : s.size = BloomSize /\ s.inserted = TestKmers}

InitVertex == InitFrom(FixtureSessions, TestKmers)

\* u.shift(dir, charIn)
ShiftVertex ==
    /\ \E dir \in {SENSE, ANTISENSE}, charIn \in Bases :
          LET r == shift(u, dir, charIn, mem, mask)
          IN  /\ u' = r.v
              /\ mem' = r.mem
              /\ res' = [op |-> "shift", dir |-> dir, base |-> charIn]
    /\ UNCHANGED <<mask, m_bloom, it, yielded, walk, cost, held, prev, second>>

\* u.setLastBase(dir, base)
SetLastBaseVertex ==
    /\ \E dir \in {SENSE, ANTISENSE}, base \in Bases :
          LET r == setLastBase(u, dir, base, mem, mask)
          IN  /\ u' = r.v
              /\ mem' = r.mem
              /\ res' = [op |-> "setLastBase", dir |-> dir, base |-> base]
    /\ UNCHANGED <<mask, m_bloom, it, yielded, walk, cost, held, prev, second>>

\* vertices built from a literal sequence, as the tests build them
Literals ==
    { Fresh(mem["u"], m_bloom, mask),
      Fresh(MiddleVariant(mem["u"]), m_bloom, mask),
      Fresh(GACTC, m_bloom, mask) }

\* u == V(literal, RollingHash(literal, numHashes, k))
CompareWithLiteral ==
    /\ \E b \in Literals :
          res' = [op |-> "compare", a |-> Val(u, mem), b |-> b,
                  equal |-> VertexEq(Val(u, mem), b, mask),
                  unequal |-> VertexNeq(Val(u, mem), b, mask),
                  kmerCompared |-> VertexCompare(Val(u, mem), b, mask).kmerCompared]
    /\ UNCHANGED <<mask, m_bloom, mem, u, it, yielded, walk, cost, held, prev, second>>

NextVertex ==
    \/ ShiftVertex
    \/ SetLastBaseVertex
    \/ CompareWithLiteral
    \/ Compare
    \/ Return

VertexSpec == InitVertex /\ [][NextVertex]_vars

-----------------------------------------------------------------------------
(* Vocabulary of the properties: the candidates and the oracle's answer,   *)
(* stated without the iterators and with hashes computed from scratch      *)

\* u[1..k-1]+c
SuccCand(kmer, c) == [i \in 1..K |-> IF i = K THEN c ELSE kmer[i + 1]]

\* c+u[0..k-2]
PredCand(kmer, c) == [i \in 1..K |-> IF i = 1 THEN c ELSE kmer[i - 1]]

\* the oracle's answer for the hash set of a k-mer
Present(kmer) == contains(m_bloom, getHashes(RollingHash(kmer, m_bloom.m_hashNum, mask)))

Sym(j) == BASE_CHARS[j + 1]

\* the neighbour vertex an item names
NeighbourOf(kind, item) ==
    CASE kind = "adjacency" -> item
      [] kind = "out_edge"  -> target(item)
      [] kind = "in_edge"   -> source(item)

YieldedKmers == {NeighbourOf(it.kind, yielded[n].item).m_kmer : n \in 1..Len(yielded)}

Exhausted == it.kind # "none" /\ it.m_i = NUM_BASES

\* the sessions of the two test fixtures
PlainBloom == insertAll(EmptyBloom(BloomSize, 2), TestKmers, NoMask)

SpacedSeedBloom == insertAll(EmptyBloom(BloomSize, 1), TestKmers, SpacedSeed)

PlainFixture == mask = NoMask /\ m_bloom = PlainBloom

SpacedSeedFixture == mask = SpacedSeed /\ m_bloom = SpacedSeedBloom

-----------------------------------------------------------------------------
\* C1: adjacent_vertices(u) and the targets of out_edges(u) are exactly the
\* candidates u[1..k-1]+c, c in ACGT, that the oracle reports present: every
\* yielded vertex is such a candidate, no present candidate the iterator has
\* passed is missing; in the plain fixture GACTC has the out-neighbours
\* {ACTCT, ACTCG} and CGACT has the out-neighbour {GACTC}.
C1_OutNeighboursExact ==
    it.kind \in {"adjacency", "out_edge"} =>
        /\ \A n \in 1..Len(yielded) :
              LET cand == SuccCand(mem["u"], Sym(yielded[n].i))
              IN  /\ NeighbourOf(it.kind, yielded[n].item) = Fresh(cand, m_bloom, mask)
                  /\ Present(cand)
        /\ \A j \in 0..(NUM_BASES - 1) :
              (j <= it.m_i /\ Present(SuccCand(mem["u"], Sym(j))))
                  => \E n \in 1..Len(yielded) : yielded[n].i = j
        /\ (PlainFixture /\ Exhausted /\ mem["u"] = GACTC) => YieldedKmers = {ACTCT, ACTCG}
        /\ (PlainFixture /\ Exhausted /\ mem["u"] = CGACT) => YieldedKmers = {GACTC}

C1_Witness ==
    /\ PlainFixture
    /\ it.kind = "adjacency"
    /\ Exhausted
    /\ mem["u"] = GACTC
    /\ YieldedKmers = {ACTCT, ACTCG}

-----------------------------------------------------------------------------
\* C2: in_edges(u) yields exactly the pairs (w, u) with w = c+u[0..k-2] that
\* the oracle reports present; the target of every in-edge and the source of
\* every out-edge is u; in_degree(u) is the number of in-edges yielded.
C2_InEdgesExact ==
    /\ it.kind = "in_edge" =>
          /\ \A n \in 1..Len(yielded) :
                LET cand == PredCand(mem["u"], Sym(yielded[n].i))
                IN  /\ source(yielded[n].item) = Fresh(cand, m_bloom, mask)
                    /\ Present(cand)
                    /\ target(yielded[n].item) = Val(u, mem)
          /\ \A j \in 0..(NUM_BASES - 1) :
                (j <= it.m_i /\ Present(PredCand(mem["u"], Sym(j))))
                    => \E n \in 1..Len(yielded) : yielded[n].i = j
          /\ Exhausted => in_degree(u, mem, m_bloom, mask).n = Len(yielded)
    /\ it.kind = "out_edge" =>
          \A n \in 1..Len(yielded) : source(yielded[n].item) = Val(u, mem)
    /\ res.op = "in_degree" =>
          res.n = Cardinality({j \in 0..(NUM_BASES - 1) : Present(PredCand(mem["u"], Sym(j)))})

C2_Witness ==
    /\ PlainFixture
    /\ it.kind = "in_edge"
    /\ Exhausted
    /\ mem["u"] = GACTC
    /\ YieldedKmers = {CGACT, TGACT}
    /\ Len(yielded) = 2

\* the candidate of symbol j: a SENSE shift of u followed by set-last-base
SenseCandidate(j) ==
    LET c == clone(u, "tmp_v", mem)
        s == shift(c.v, SENSE, "A", c.mem, mask)
    IN  setLastBase(s.v, SENSE, Sym(j), s.mem, mask).v

PresentSenseCandidates ==
    {j \in 0..(NUM_BASES - 1) : vertex_exists(SenseCandidate(j), m_bloom, NoStack)}

\* C3: out_degree(u) is the number of symbols c whose candidate (SENSE shift
\* of u, then set-last-base(c)) the oracle reports present, and is the number
\* of items adjacent_vertices(u) and out_edges(u) yield.
C3_OutDegree ==
    /\ res.op = "out_degree" => res.n = Cardinality(PresentSenseCandidates)
    /\ (it.kind \in {"adjacency", "out_edge"} /\ Exhausted) =>
          /\ Len(yielded) = Cardinality(PresentSenseCandidates)
          /\ out_degree(u, mem, m_bloom, mask).n = Len(yielded)

C3_Witness ==
    /\ PlainFixture
    /\ mem["u"] = GACTC
    /\ res.op = "out_degree"
    /\ res.n = 2

\* the symbol an item's neighbour was given at the end the iterator writes
SubstitutedSymbol(kind, item) ==
    IF kind = "in_edge" THEN NeighbourOf(kind, item).m_kmer[1]
    ELSE NeighbourOf(kind, item).m_kmer[K]

\* C5: every sequence yields its items in strictly increasing alphabet order
\* of the substituted symbol (A, C, G, T), and no symbol twice.
C5_AlphabetOrder ==
    /\ \A n \in 1..Len(yielded) :
          SubstitutedSymbol(it.kind, yielded[n].item) = Sym(yielded[n].i)
    /\ \A n \in 1..(Len(yielded) - 1) :
          Code(SubstitutedSymbol(it.kind, yielded[n].item))
              < Code(SubstitutedSymbol(it.kind, yielded[n + 1].item))

C5_Witness ==
    /\ it.kind = "in_edge"
    /\ Len(yielded) = 3
    /\ SubstitutedSymbol(it.kind, yielded[1].item) = "C"
    /\ SubstitutedSymbol(it.kind, yielded[2].item) = "G"
    /\ SubstitutedSymbol(it.kind, yielded[3].item) = "T"

-----------------------------------------------------------------------------
\* every item of the sequence that starts at itr, in order
RECURSIVE Collect(_, _, _, _)
Collect(itr, m, g, msk) ==
    IF IterEq(itr, EndIterator(itr.kind, itr.m_g)) THEN <<>>
    ELSE LET r == Increment(itr, m, g, msk)
         IN  <<Star(itr, m)>> \o Collect(r.it, r.mem, g, msk)

\* the whole sequence of one kind from the vertex with value vval
Enumerate(kind, vval) ==
    LET m0 == [EmptyMem EXCEPT !["u"] = vval.m_kmer]
        v0 == [m_kmer |-> "u", m_rollingHash |-> vval.m_rollingHash]
        r  == Construct(kind, v0, "tmp_u", "tmp_v", m0, m_bloom, mask)
    IN  Collect(r.it, r.mem, m_bloom, mask)

Items(seq) == {seq[n] : n \in 1..Len(seq)}

OutNeighbours(vval) == {target(e) : e \in Items(Enumerate("out_edge", vval))}

InNeighbours(vval) == {source(e) : e \in Items(Enumerate("in_edge", vval))}

\* C4 as stated: for all vertices u and v, v is yielded as an out-neighbour
\* of u iff u is yielded as the source of an in-edge of v.
C4_SymmetryAllVertices ==
    /\ it.kind \in {"adjacency", "out_edge"} =>
          \A n \in 1..Len(yielded) :
              Val(u, mem) \in InNeighbours(NeighbourOf(it.kind, yielded[n].item))
    /\ it.kind = "in_edge" =>
          \A n \in 1..Len(yielded) :
              Val(u, mem) \in OutNeighbours(source(yielded[n].item))

\* C4, amended: for all vertices u and v that the oracle reports present, v
\* is yielded as an out-neighbour of u iff u is yielded as the source of an
\* in-edge of v.
C4_SymmetryPresentVertices ==
    vertex_exists(u, m_bloom, NoStack) =>
        /\ it.kind \in {"adjacency", "out_edge"} =>
              \A n \in 1..Len(yielded) :
                  /\ vertex_exists(NeighbourOf(it.kind, yielded[n].item), m_bloom, NoStack)
                  /\ Val(u, mem) \in InNeighbours(NeighbourOf(it.kind, yielded[n].item))
        /\ it.kind = "in_edge" =>
              \A n \in 1..Len(yielded) :
                  /\ vertex_exists(source(yielded[n].item), m_bloom, NoStack)
                  /\ Val(u, mem) \in OutNeighbours(source(yielded[n].item))

C4_Witness ==
    /\ PlainFixture
    /\ mem["u"] = CGACT
    /\ vertex_exists(u, m_bloom, NoStack)
    /\ it.kind = "out_edge"
    /\ YieldedKmers = {GACTC}
    /\ Val(u, mem) \in InNeighbours(target(yielded[1].item))

-----------------------------------------------------------------------------
\* the vertices of an item: the vertex itself, or both ends of an edge
EndsOf(kind, item) == IF kind = "adjacency" THEN {item} ELSE {source(item), target(item)}

\* C6: the null vertex, an empty k-mer paired with an empty hash set, is
\* never reported present by vertex_exists, whatever the oracle holds, and
\* no enumeration yields it.
C6_NullVertexAbsent ==
    /\ (res.op = "vertex_exists" /\ res.v = EmptyVertex) => ~res.present
    /\ \A n \in 1..Len(yielded) : EmptyVertex \notin EndsOf(it.kind, yielded[n].item)

\* C7: get(vertex_complement, g, u) returns the reverse complement of u's
\* k-mer with the hash state computed from scratch over it.
C7_ComplementFreshHash ==
    LET r == get_vertex_complement(Val(u, mem))
    IN  /\ r # IllFormed
        /\ r.m_kmer = reverseComplement(mem["u"])
        /\ r.m_rollingHash
              = RollingHash(reverseComplement(mem["u"]), m_bloom.m_hashNum, mask)

MaskEquivalentToInserted(kmer) == \E s \in TestKmers : KmerEq(kmer, s, mask)

\* the k-mers an enumeration from the k-mer asks the oracle about
CandidatesOf(kmer) == {SuccCand(kmer, c) : c \in Bases} \cup {PredCand(kmer, c) : c \in Bases}

\* the oracle answers exactly for the mask-equivalence classes of the
\* inserted k-mers, on the questions in kmers
OracleExactFor(kmers) == \A c \in kmers : Present(c) <=> MaskEquivalentToInserted(c)

\* the neighbour sets of GACTC under the spaced seed, and no self-loop
SpacedSeedNeighboursOfGACTC ==
    (mem["u"] = GACTC /\ it.kind # "none") =>
        /\ (Exhausted /\ it.kind # "in_edge") => YieldedKmers = {ACTCT, ACTCG}
        /\ (Exhausted /\ it.kind = "in_edge") => YieldedKmers = {CGACT, TGACT}
        /\ \A n \in 1..Len(yielded) :
              LET v == NeighbourOf(it.kind, yielded[n].item)
              IN  /\ ~VertexEq(v, Val(u, mem), mask)
                  /\ ~VertexEq(v, Fresh(reverseComplement(GACTC), m_bloom, mask), mask)

\* C8: under the spaced seed 11011 (k = 5, one hash), with an oracle that
\* answers exactly for the mask-equivalence classes of the inserted k-mers
\* on every question the enumeration asks, GACTC has the out-neighbours
\* {ACTCT, ACTCG} and the in-neighbours {CGACT, TGACT}, its equivalence with
\* its own reverse complement adds no self-loop and no other edge, and a
\* candidate is yielded only if it is mask-equivalent to an inserted k-mer;
\* the fixture's filter is such an oracle for the enumerations from GACTC.
C8_SpacedSeedOnlyInserted ==
    SpacedSeedFixture =>
        /\ mem["u"] = GACTC => OracleExactFor(CandidatesOf(mem["u"]))
        /\ OracleExactFor(CandidatesOf(mem["u"])) =>
              /\ SpacedSeedNeighboursOfGACTC
              /\ \A n \in 1..Len(yielded) :
                    MaskEquivalentToInserted(NeighbourOf(it.kind, yielded[n].item).m_kmer)

C8_Witness ==
    /\ SpacedSeedFixture
    /\ mem["u"] = GACTC
    /\ OracleExactFor(CandidatesOf(mem["u"]))
    /\ it.kind = "out_edge"
    /\ Exhausted
    /\ YieldedKmers = {ACTCT, ACTCG}
    /\ VertexEq(Val(u, mem), Fresh(reverseComplement(GACTC), m_bloom, mask), mask)

\* C9: a == b iff the hash states are equal and the k-mers agree at every
\* unmasked position; a != b is its negation; the k-mers are compared only
\* when the hash states are equal.
C9_VertexEquality ==
    res.op = "compare" =>
        /\ res.equal <=>
              /\ res.a.m_rollingHash = res.b.m_rollingHash
              /\ \A i \in 1..K : Significant(mask, i) => res.a.m_kmer[i] = res.b.m_kmer[i]
        /\ res.unequal <=> ~res.equal
        /\ res.kmerCompared => res.a.m_rollingHash = res.b.m_rollingHash

C9_Witness ==
    /\ res.op = "compare"
    /\ res.equal
    /\ res.kmerCompared
    /\ res.a.m_kmer # res.b.m_kmer

\* C10: constructing, advancing and exhausting iterators and computing the
\* degrees leaves the oracle and the caller's origin vertex (its k-mer and
\* its hash state) as they were; only the caller's own assignment to u
\* (a traversal step) changes u.
C10_ReadOnly ==
    [][ /\ m_bloom' = m_bloom
        /\ mask' = mask
        /\ walk' = walk => (u' = u /\ mem'["u"] = mem["u"]) ]_vars

C10_Witness ==
    /\ PlainFixture
    /\ it.kind = "in_edge"
    /\ Exhausted
    /\ Len(yielded) = 2
    /\ Val(u, mem) = Fresh(GACTC, m_bloom, mask)
    /\ m_bloom = PlainBloom

-----------------------------------------------------------------------------
(* A caller that keeps what operator* gave it while it goes on iterating,  *)
(* and that collects the items of an enumeration and enumerates again.     *)

InitIter == InitFrom(Sessions, TestKmers)

\* operator*: adjacency_iterator returns a reference to its m_v; the edge
\* iterators return a pair built from copies of m_u and m_v
Dereference(itr, m) ==
    IF itr.kind = "adjacency"
    THEN [held |-> [how |-> "reference", seen |-> Star(itr, m)], mem |-> m]
    ELSE LET ends == IF itr.kind = "out_edge" THEN <<itr.m_u, itr.m_v>>
                     ELSE <<itr.m_v, itr.m_u>>
             a == CopyVertex(ends[1], "e_first", m)
             b == CopyVertex(ends[2], "e_second", a.mem)
         IN  [held |-> [how |-> "pair", first |-> a.v, second |-> b.v,
                        seen |-> Star(itr, m)],
              mem |-> b.mem]

\* what the caller reads now through what it kept
HeldNow ==
    CASE held.how = "reference" -> Val(it.m_v, mem)
      [] held.how = "pair"      -> <<Val(held.first, mem), Val(held.second, mem)>>

\* const vertex_descriptor& v = *ai;  edge_descriptor e = *ei;
Deref ==
    /\ it.kind # "none"
    /\ ~IterEq(it, EndIterator(it.kind, m_bloom))
    /\ LET r == Dereference(it, mem)
       IN  /\ held' = r.held
           /\ mem' = r.mem
    /\ UNCHANGED <<mask, m_bloom, u, it, yielded, res, walk, cost, prev, second>>

\* the caller keeps the items it has seen and lets the iterator go
KeepItems ==
    /\ it.kind # "none"
    /\ prev' = [kind |-> it.kind,
                items |-> [n \in 1..Len(yielded) |-> yielded[n].item],
                complete |-> IterEq(it, EndIterator(it.kind, m_bloom))]
    /\ it' = NoIterator
    /\ mem' = FreeHeld(FreeIterator(mem))
    /\ yielded' = <<>>
    /\ cost' = NoOps
    /\ held' = NoHeld
    /\ UNCHANGED <<mask, m_bloom, u, res, walk, second>>

NextIter ==
    \/ AdjacentVertices
    \/ OutEdges
    \/ InEdges
    \/ PlusPlus
    \/ PostPlusPlus
    \/ CallNext
    \/ Release
    \/ Deref
    \/ KeepItems

IterSpec == InitIter /\ [][NextIter]_vars

-----------------------------------------------------------------------------
(* A caller with two iterators alive, advanced in any order.               *)

IteratorKinds == {"adjacency", "out_edge", "in_edge"}

\* a second graph of the session: a filter that holds two of the k-mers
OtherGraph ==
    insertAll(EmptyBloom(m_bloom.m_size, m_bloom.m_hashNum), {CGACT, GACTC}, mask)

\* the second iterator is constructed: on u or on a vertex of its own, on
\* the graph of the first iterator or on the other graph
Second ==
    /\ it2.kind = "none"
    /\ res = NoResult
    /\ \E kind \in IteratorKinds, own \in BOOLEAN, g \in {m_bloom, OtherGraph} :
          LET o == IF own
                   THEN NewVertex("u2", GACTC, RollingHash(GACTC, g.m_hashNum, mask), mem)
                   ELSE [v |-> u, mem |-> mem]
              r == Construct(kind, o.v, "m_u2", "m_v2", o.mem, g, mask)
          IN  /\ it2' = r.it
              /\ mem' = r.mem
              /\ yielded2' = Stop(r.it, r.mem)
    /\ UNCHANGED <<mask, m_bloom, u, it, yielded, res, walk, cost, held, prev>>

\* ++it2, by a caller that found it2 != end
PlusPlus2 ==
    /\ it2.kind # "none"
    /\ IterNeq(it2, EndIterator(it2.kind, it2.m_g))
    /\ LET r == Increment(it2, mem, it2.m_g, mask)
       IN  /\ it2' = r.it
           /\ mem' = r.mem
           /\ yielded2' = yielded2 \o Stop(r.it, r.mem)
    /\ UNCHANGED <<mask, m_bloom, u, it, yielded, res, walk, cost, held, prev>>

\* it2.next(), by the caller
CallNext2 ==
    /\ it2.kind # "none"
    /\ LET r == next(it2, mem, it2.m_g, mask)
       IN  /\ it2' = r.it
           /\ mem' = r.mem
    /\ UNCHANGED <<mask, m_bloom, u, it, yielded, res, walk, cost, held, prev, yielded2>>

\* the second iterator and its origin go out of scope
Release2 ==
    /\ it2.kind # "none"
    /\ it2' = NoIterator
    /\ mem' = [mem EXCEPT !["u2"] = <<>>, !["m_u2"] = <<>>, !["m_v2"] = <<>>]
    /\ yielded2' = <<>>
    /\ UNCHANGED <<mask, m_bloom, u, it, yielded, res, walk, cost, held, prev>>

\* what a read finds in the m_g of a default-constructed iterator
IndeterminateGraph == {m_bloom, OtherGraph, WildPointer}

\* adjacency_iterator d; d == adjacency_iterator(g); d != adjacency_iterator(g)
\* (and the same with the edge iterators)
CompareDefault ==
    /\ it.kind = "none"
    /\ it2.kind = "none"
    /\ res = NoResult
    /\ \E kind \in IteratorKinds, g \in IndeterminateGraph :
       \E i \in IndeterminateIndex(kind) :
          LET d == DefaultIterator(kind, g, i)
          IN  res' = [op |-> "compare_default", d |-> d,
                      equal |-> IterEq(d, EndIterator(kind, m_bloom)),
                      unequal |-> IterNeq(d, EndIterator(kind, m_bloom))]
    /\ UNCHANGED <<mask, m_bloom, mem, u, it, yielded, walk, cost, held, prev, second>>

NextPair ==
    \/ AdjacentVertices
    \/ OutEdges
    \/ InEdges
    \/ PlusPlus
    \/ PostPlusPlus
    \/ CallNext
    \/ Release
    \/ Second
    \/ PlusPlus2
    \/ CallNext2
    \/ Release2
    \/ CompareDefault
    \/ Return

PairSpec == InitIter /\ [][NextPair]_vars

-----------------------------------------------------------------------------
\* the hash state computed from scratch over the k-mer u holds
FromScratch == RollingHash(mem["u"], m_bloom.m_hashNum, mask)

\* the position setLastBase(dir, .) is to write
LastBase(dir) == IF dir = SENSE THEN K ELSE 1

\* C11: after any finite sequence of shift(dir, c) and setLastBase(dir, c)
\* on a vertex that started consistent, the hash state equals the hash
\* computed from scratch over the k-mer the vertex holds, and the k-mer
\* reflects every mutation: after setLastBase(SENSE, c) position k-1 holds c,
\* after setLastBase(ANTISENSE, c) position 0 holds c, every other position
\* is unchanged; a shift moves the window by one and admits c at its end.
C11_HashFollowsKmer ==
    /\ [](u.m_rollingHash = FromScratch)
    /\ [][ /\ res'.op = "setLastBase" =>
                \A i \in 1..K :
                    mem'["u"][i] = IF i = LastBase(res'.dir) THEN res'.base
                                   ELSE mem["u"][i]
           /\ (res'.op = "shift" /\ res'.dir = SENSE) =>
                \A i \in 1..K :
                    mem'["u"][i] = IF i = K THEN res'.base ELSE mem["u"][i + 1]
           /\ (res'.op = "shift" /\ res'.dir = ANTISENSE) =>
                \A i \in 1..K :
                    mem'["u"][i] = IF i = 1 THEN res'.base ELSE mem["u"][i - 1] ]_vars

\* a k-mer no single mutation of a fixture k-mer gives, under the spaced seed
C11_Witness ==
    /\ mask = SpacedSeed
    /\ res.op = "setLastBase"
    /\ res.dir = SENSE
    /\ res.base = "G"
    /\ mem["u"] = <<"T", "T", "T", "T", "G">>
    /\ u.m_rollingHash = FromScratch

-----------------------------------------------------------------------------
\* C12: a vertex or edge endpoint obtained by dereferencing an adjacency,
\* out-edge or in-edge iterator is an independent value: advancing the
\* iterator afterwards changes neither its k-mer nor its hash state, and
\* mutating the working vertex never changes the origin vertex stored in
\* the iterator.
C12_DereferencedIndependent ==
    /\ held.how # "none" => HeldNow = held.seen
    /\ it.kind # "none" => Val(it.m_u, mem) = Val(u, mem)

-----------------------------------------------------------------------------
YieldedItems == [n \in 1..Len(yielded) |-> yielded[n].item]

IsPrefix(a, b) == Len(a) <= Len(b) /\ \A n \in 1..Len(a) : a[n] = b[n]

\* C15: enumeration is restartable and deterministic: constructing the
\* sequence of the same kind from the same vertex u again, after the first
\* was partly or fully consumed, yields the same items in the same order,
\* and the oracle is asked again about each of the four candidates (nothing
\* of the first is cached); a call of next() by the caller asks once more.
C15_Restartable ==
    (it.kind # "none" /\ it.kind = prev.kind) =>
        /\ IsPrefix(prev.items, YieldedItems) \/ IsPrefix(YieldedItems, prev.items)
        /\ Exhausted =>
              /\ IsPrefix(prev.items, YieldedItems)
              /\ prev.complete => YieldedItems = prev.items
              /\ cost.vertex_exists >= NUM_BASES
              /\ cost.vertex_exists <= NUM_BASES + DirectNext(cost)

\* the first sequence was left after one item of three, the second is complete
C15_Witness ==
    /\ prev.kind = "in_edge"
    /\ ~prev.complete
    /\ Len(prev.items) = 1
    /\ it.kind = "in_edge"
    /\ Exhausted
    /\ Len(yielded) = 3
    /\ prev.items[1] = YieldedItems[1]

-----------------------------------------------------------------------------
\* one window shift, four set-last-base updates, four oracle queries
FullEnumeration(ops) ==
    /\ ops.shift = 1
    /\ ops.setLastBase = NUM_BASES
    /\ ops.vertex_exists = NUM_BASES

\* C13: constructing an iterator on a vertex and advancing it until it
\* equals the end sentinel performs exactly 1 window shift, exactly 4
\* set-last-base hash updates and exactly 4 oracle queries in total,
\* whatever the number of candidates present (0 to 4).  (A caller that
\* calls next() itself adds one update and one query with each call it
\* makes ahead of the end.)
C13_EnumerationCost ==
    /\ (Exhausted /\ DirectNext(cost) = 0) => FullEnumeration(cost)
    /\ res.op \in {"out_degree", "in_degree"} => FullEnumeration(res.ops)
    /\ it.kind # "none" =>
          LET constructAndAdvance == IF Exhausted THEN NUM_BASES ELSE it.m_i + 1
          IN  /\ cost.shift = 1
              /\ cost.setLastBase = cost.vertex_exists
              /\ cost.setLastBase >= constructAndAdvance
              /\ cost.setLastBase <= constructAndAdvance + DirectNext(cost)
              /\ DirectNext(cost) = 0 => cost.setLastBase = constructAndAdvance

C13_Witness ==
    /\ it.kind = "adjacency"
    /\ Exhausted
    /\ Len(yielded) = 3
    /\ cost.increment = 3
    /\ DirectNext(cost) = 0
    /\ FullEnumeration(cost)

-----------------------------------------------------------------------------
\* C14: every adjacency, out-edge and in-edge enumeration terminates: from
\* any vertex and any oracle content the iterator yields at most 4 items
\* and equals the end sentinel after at most 4 increments; the cursor index
\* never exceeds 4 and never decreases.
C14_Terminates ==
    /\ it.kind # "none" =>
          /\ Len(yielded) <= NUM_BASES
          /\ cost.increment <= NUM_BASES
          /\ cost.increment = NUM_BASES => IterEq(it, EndIterator(it.kind, m_bloom))
          /\ it.m_i <= NUM_BASES
          /\ cost.increment <= it.m_i
          /\ \A n \in 1..Len(yielded) : yielded[n].i <= it.m_i
          /\ \A n \in 1..(Len(yielded) - 1) : yielded[n].i <= yielded[n + 1].i
    /\ res.op \in {"out_degree", "in_degree"} =>
          /\ res.n <= NUM_BASES
          /\ res.ops.increment = res.n

\* all four candidates are present: four items, four increments, then the end
C14_Witness ==
    /\ it.kind = "out_edge"
    /\ Len(yielded) = NUM_BASES
    /\ cost.increment = NUM_BASES
    /\ IterEq(it, EndIterator(it.kind, m_bloom))

-----------------------------------------------------------------------------
\* the candidate of the origin the iterator stores, for the iterator's index
CandidateAt(itr, m) ==
    IF itr.kind = "in_edge" THEN PredCand(m[itr.m_u.m_kmer], Sym(itr.m_i))
    ELSE SuccCand(m[itr.m_u.m_kmer], Sym(itr.m_i))

\* C17: after its construction from a vertex and after every increment an
\* iterator is either exhausted (index 4) or its working vertex is the
\* candidate whose boundary symbol is "ACGT"[index], and the oracle reports
\* it present; so index < 4, the assertion of operator* and operator++,
\* holds for every iterator that does not compare equal to the end sentinel.
C17_IteratorValid ==
    it.kind # "none" =>
        /\ \/ it.m_i = NUM_BASES
           \/ /\ it.m_i < NUM_BASES
              /\ Val(it.m_v, mem) = Fresh(CandidateAt(it, mem), m_bloom, mask)
              /\ mem[it.m_v.m_kmer][LastBase(ShiftDir(it.kind))] = BASE_CHARS[it.m_i + 1]
              /\ vertex_exists(it.m_v, m_bloom, NoStack)
              /\ Present(mem[it.m_v.m_kmer])
        /\ ~IterEq(it, EndIterator(it.kind, m_bloom)) => it.m_i < NUM_BASES

C17_Witness ==
    /\ PlainFixture
    /\ it.kind = "adjacency"
    /\ mem["u"] = GACTC
    /\ cost.increment = 1
    /\ it.m_i = 3
    /\ mem["m_v"] = ACTCT
    /\ vertex_exists(it.m_v, m_bloom, NoStack)

-----------------------------------------------------------------------------
\* the whole sequence of one kind from the vertex with value vval on graph
\* g, by an iterator that is alone
Alone(kind, vval, g) ==
    LET m0 == [EmptyMem EXCEPT !["u"] = vval.m_kmer]
        v0 == [m_kmer |-> "u", m_rollingHash |-> vval.m_rollingHash]
        r  == Construct(kind, v0, "tmp_u", "tmp_v", m0, g, mask)
    IN  Collect(r.it, r.mem, g, mask)

Yielded2Items == [n \in 1..Len(yielded2) |-> yielded2[n].item]

\* the items so far begin the sequence of the iterator alone, and are all
\* of it once the iterator is at the end
YieldsAsAlone(itr, items, origin, g) ==
    /\ Val(itr.m_u, mem) = origin
    /\ IsPrefix(items, Alone(itr.kind, origin, g))
    /\ IterEq(itr, EndIterator(itr.kind, itr.m_g)) => items = Alone(itr.kind, origin, g)

\* C16: independent traversals do not interfere: when the steps of two
\* iterators over the same oracle (or over another one), from the same or
\* from different origin vertices, are interleaved in any order, each
\* iterator yields exactly the sequence it yields when run alone.
C16_NoInterference ==
    /\ it.kind # "none" => YieldsAsAlone(it, YieldedItems, Val(u, mem), m_bloom)
    /\ it2.kind # "none" =>
          \/ YieldsAsAlone(it2, Yielded2Items, Val(u, mem), it2.m_g)
          \/ /\ mem["u2"] = GACTC
             /\ YieldsAsAlone(it2, Yielded2Items, Fresh(GACTC, it2.m_g, mask), it2.m_g)

\* both iterators run over the same oracle and the same origin, each is at
\* the end after steps of the other came in between
C16_Witness ==
    /\ PlainFixture
    /\ mem["u"] = GACTC
    /\ it.kind = "out_edge"
    /\ it2.kind = "in_edge"
    /\ it2.m_g = m_bloom
    /\ mem["u2"] = <<>>
    /\ Exhausted
    /\ it2.m_i = NUM_BASES
    /\ Len(yielded) = 2
    /\ Len(yielded2) = 2

-----------------------------------------------------------------------------
\* C18: iterator equality is decided by the cursor index alone: an iterator
\* compares equal to the end sentinel iff its index is 4, and two iterators
\* of the same kind with the same index compare equal even when they were
\* constructed from different origin vertices or different graphs.
C18_EqualityByIndex ==
    /\ it.kind # "none" =>
          /\ IterEq(it, EndIterator(it.kind, m_bloom)) <=> it.m_i = NUM_BASES
          /\ IterNeq(it, EndIterator(it.kind, m_bloom)) <=> it.m_i < NUM_BASES
    /\ it2.kind # "none" =>
          IterEq(it2, EndIterator(it2.kind, it2.m_g)) <=> it2.m_i = NUM_BASES
    /\ (it.kind # "none" /\ it2.kind = it.kind) =>
          /\ IterEq(it, it2) <=> it.m_i = it2.m_i
          /\ IterNeq(it, it2) <=> it.m_i # it2.m_i
    /\ res.op = "compare_default" =>
          /\ res.equal <=> res.d.m_i = NUM_BASES
          /\ res.unequal <=> res.d.m_i # NUM_BASES

\* equal iterators that stand on different vertices of different graphs
C18_Witness ==
    /\ it.kind = "out_edge"
    /\ it2.kind = "out_edge"
    /\ it2.m_g # m_bloom
    /\ Val(it.m_u, mem) # Val(it2.m_u, mem)
    /\ Val(it.m_v, mem) # Val(it2.m_v, mem)
    /\ it.m_i < NUM_BASES
    /\ IterEq(it, it2)

-----------------------------------------------------------------------------
\* C19: the vertex hash functor is consistent with vertex equality: any
\* two vertices that compare equal under operator==, among them vertices
\* reached by different sequences of shift and setLastBase and vertices
\* built from scratch, have the same std::hash value, the hash seed of
\* the rolling hash state.
C19_HashConsistentWithEquality ==
    /\ (res.op = "compare" /\ res.equal) =>
          /\ VertexHash(res.a) = VertexHash(res.b)
          /\ VertexHash(res.a) = getHashSeed(res.a.m_rollingHash)
    /\ \A b \in Literals :
          VertexEq(Val(u, mem), b, mask) => VertexHash(Val(u, mem)) = VertexHash(b)

\* a vertex reached by mutations equals a literal that differs from it at
\* the masked position
C19_Witness ==
    /\ mask = SpacedSeed
    /\ res.op = "compare"
    /\ res.equal
    /\ res.a = Val(u, mem)
    /\ res.a.m_kmer = <<"T", "T", "T", "T", "G">>
    /\ res.b.m_kmer = <<"T", "T", "A", "T", "G">>
    /\ VertexHash(res.a) = VertexHash(res.b)

====
